---- MODULE Spec2Model ----
(***************************************************************************)
(* MicroLink: the key extraction (scripts/normalize_events.py), the        *)
(* correlation-graph builder (scripts/build_graph.py), the renderers       *)
(* (scripts/visualize_flow.py) and the anomaly scanner                     *)
(* (scripts/detect_anomalies.py).                                          *)
(*                                                                         *)
(* Conventions of the model                                                *)
(*   - a Python None is the empty tuple, a present value x is <<x>>;       *)
(*   - instants and durations are integers counted in half seconds, so     *)
(*     1.0 s is 2 and the lags 0.5 s, 1.5 s, 4.0 s are 1, 3, 8;            *)
(*   - a message is the sequence of its lower-cased words;                 *)
(*   - a networkx MultiDiGraph is [order, attr, succ]: the node ids in     *)
(*     insertion order, each node's attribute dict, and each node's        *)
(*     successors in the order their first edge was added, each with the   *)
(*     data dicts of its parallel edges in insertion order (G._adj).       *)
(***************************************************************************)
EXTENDS Integers, Sequences, FiniteSets, TLC

VARIABLES G, last_by_id, rows, pc, findings, views

vars == <<G, last_by_id, rows, pc, findings, views>>

-----------------------------------------------------------------------------
(* Bounds of the explored inputs *)

\* rows of the events frame folded by one build
MaxEvents == 3
\* edges of a hand-made graph given to scan (structure only)
MaxEdges == 4
\* DELIVERED edges of a hand-made graph given to scan (lag statistics)
MaxLagEdges == 3
\* rows of an events frame that is read unsorted and sorted by the builder
MaxFrameRows == 3
\* key=value tokens of a raw log message
MaxTokens == 3
\* edges of a hand-made graph whose report is rendered
MaxReportEdges == 3

Services == {"checkout-svc", "payment-svc"}
ActionNames == {"processEvent"}
Keys == {"orderId=1", "orderId=2"}
\* "processing order": consume vocabulary; "publish to shipping": publish;
\* "order received": neither; "published for processing": both
Messages ==
  { <<"processing", "order">>, <<"publish", "to", "shipping">>,
    <<"order", "received">>, <<"published", "for", "processing">> }
\* time between one row of the sorted frame and the next, in half seconds:
\* the rows are one second apart
Gaps == {2}
\* the rows of the demo run: the three demo services, one key, the
\* messages of a processing, a publish and a consume event, one second or
\* four seconds after the row before
DemoServices == {"checkout-svc", "payment-svc", "shipper-svc"}
DemoKeys == {"orderId=1"}
DemoMessages ==
  { <<"processing", "order">>, <<"publish", "to", "shipping">>,
    <<"consume", "shipping", "ack">> }
DemoGaps == {2, 8}
\* the timestamps of the rows of an unsorted frame: two instants, so that
\* rows tie and rows are out of order
FrameTimes == {0, 2}
\* the rows of an unsorted frame are of one key
FrameKeys == {"orderId=1"}
\* the messages of the rows of an unsorted frame: a publish and a consume
FrameMessages == {<<"publish", "to", "shipping">>, <<"processing", "order">>}

-----------------------------------------------------------------------------
(* Python values *)

None == <<>>
Some(x) == <<x>>

\* dict.update / keyword arguments merged into an attribute dict
DictUpdate(old, new) ==
  [k \in (DOMAIN old) \cup (DOMAIN new) |->
     IF k \in DOMAIN new THEN new[k] ELSE old[k]]

EmptyDict == [k \in {} |-> None]

\* dict.get(key): None when the key is missing, else the value
DictGet(d, k) == IF k \in DOMAIN d THEN Some(d[k]) ELSE None

\* dict.pop(key) for its effect on the dict
DictPop(d, k) == [x \in (DOMAIN d) \ {k} |-> d[x]]

Contains(s, x) == \E i \in 1..Len(s) : s[i] = x

-----------------------------------------------------------------------------
(* scripts/normalize_events.py *)

(* A raw log message is a sequence of tokens pre ++ name ++ "=" ++ value:  *)
(* pre is the text that touches the name on its left ("" after a space),   *)
(* value the characters after the equals sign up to the next space.        *)

Digits == {"0", "1", "2", "3", "4", "5", "6", "7", "8", "9"}
Letters == {"a", "b", "A", "B"}

\* the character classes of the capture groups: \d and [A-Za-z0-9-]
CharClass(class) ==
  IF class = "digits" THEN Digits ELSE Digits \cup Letters \cup {"-"}

\* the patterns in list order: orderId=(\d+), paymentId=([A-Za-z0-9-]+),
\* userId=([A-Za-z0-9-]+), each after a word boundary
CORR_PATTERNS ==
  << [name |-> "orderId",   class |-> "digits"],
     [name |-> "paymentId", class |-> "alnum"],
     [name |-> "userId",    class |-> "alnum"] >>

\* the longest prefix of the characters that lies in the class: what a
\* greedy `+` group takes
RECURSIVE Prefix(_, _)
Prefix(class, chars) ==
  IF chars = <<>> \/ Head(chars) \notin CharClass(class) THEN <<>>
  ELSE <<Head(chars)>> \o Prefix(class, Tail(chars))

RECURSIVE Join(_)
Join(chars) == IF chars = <<>> THEN "" ELSE Head(chars) \o Join(Tail(chars))

\* the pattern matches at the token: the name follows a word boundary, is
\* the pattern's name, spelled in its case, and the group takes a character
MatchesAt(pat, tok) ==
  tok.pre = "" /\ tok.name = pat.name /\ Prefix(pat.class, tok.value) # <<>>

\* m.group(0): the matched text, name, equals sign and captured value
Group0(pat, tok) == pat.name \o "=" \o Join(Prefix(pat.class, tok.value))

\* re.search(pat, msg): the leftmost match, None when there is none
re_search(pat, msg) ==
  IF \E i \in 1..Len(msg) : MatchesAt(pat, msg[i])
  THEN LET i == CHOOSE i \in 1..Len(msg) :
                  /\ MatchesAt(pat, msg[i])
                  /\ \A j \in 1..(i - 1) : ~MatchesAt(pat, msg[j])
       IN  Some(Group0(pat, msg[i]))
  ELSE None

\* the three patterns joined into one alternation: the match that stands
\* leftmost in the message wins, whatever its pattern
extract_leftmost(pats, msg) ==
  IF \E i \in 1..Len(msg) : \E k \in 1..Len(pats) : MatchesAt(pats[k], msg[i])
  THEN LET i == CHOOSE i \in 1..Len(msg) :
                  /\ \E k \in 1..Len(pats) : MatchesAt(pats[k], msg[i])
                  /\ \A j \in 1..(i - 1) :
                       \A k \in 1..Len(pats) : ~MatchesAt(pats[k], msg[j])
           k == CHOOSE k \in 1..Len(pats) : MatchesAt(pats[k], msg[i])
       IN  Some(Group0(pats[k], msg[i]))
  ELSE None

\* the loop `for pat in CORR_PATTERNS` over the patterns left to try
RECURSIVE extract_from(_, _)
extract_from(pats, msg) ==
  IF pats = <<>> THEN None
  ELSE IF re_search(Head(pats), msg) # None THEN re_search(Head(pats), msg)
  ELSE extract_from(Tail(pats), msg)

extract_corr_key(msg) == extract_from(CORR_PATTERNS, msg)

\* the tokens of the raw messages: the three key names and a name that is
\* no key, alone or glued to a letter before them, with a value of digits
\* then letters, of letters then digits, or with no value
TokenNames == {"orderId", "paymentId", "userId", "stage"}
TokenValues == {<<"1", "2", "a", "b">>, <<"a", "b", "-", "1">>, <<>>}
Tokens ==
  {[pre |-> pre, name |-> name, value |-> value] :
     pre \in {"", "x"}, name \in TokenNames \ {"stage"}, value \in TokenValues}
  \cup {[pre |-> "", name |-> "stage", value |-> <<"a", "b">>]}

-----------------------------------------------------------------------------
(* networkx.MultiDiGraph *)

\* a graph made with the demo queue in it, before any row is folded
GraphWithQueue ==
  [order |-> <<"order.events">>,
   attr  |-> [n \in {"order.events"} |-> [type |-> "Queue"]],
   succ  |-> [n \in {"order.events"} |-> <<>>]]

MultiDiGraph == [order |-> <<>>, attr |-> EmptyDict, succ |-> EmptyDict]

HasNode(g, n) == n \in DOMAIN g.attr

\* G.add_node(n, **attrs): a new node is appended to the node order; an
\* existing node keeps its place and its attribute dict is updated
add_node(g, n, attrs) ==
  IF HasNode(g, n)
  THEN [g EXCEPT !.attr[n] = DictUpdate(g.attr[n], attrs)]
  ELSE [order |-> Append(g.order, n),
        attr  |-> [x \in (DOMAIN g.attr) \cup {n} |->
                     IF x = n THEN attrs ELSE g.attr[x]],
        succ  |-> [x \in (DOMAIN g.succ) \cup {n} |->
                     IF x = n THEN <<>> ELSE g.succ[x]]]

SuccIndex(nbrs, v) ==
  IF \E i \in 1..Len(nbrs) : nbrs[i].v = v
  THEN CHOOSE i \in 1..Len(nbrs) : nbrs[i].v = v
  ELSE 0

\* DiGraph.add_edge: a second edge of the pair (u, v) updates the first one
add_edge_merged(g, u, v, data) ==
  LET g1 == IF HasNode(g, u) THEN g ELSE add_node(g, u, EmptyDict)
      g2 == IF HasNode(g1, v) THEN g1 ELSE add_node(g1, v, EmptyDict)
      nbrs == g2.succ[u]
      i == SuccIndex(nbrs, v)
  IN  IF i = 0
      THEN [g2 EXCEPT !.succ[u] = Append(nbrs, [v |-> v, eds |-> <<data>>])]
      ELSE [g2 EXCEPT !.succ[u][i].eds = <<DictUpdate(nbrs[i].eds[1], data)>>]

\* G.add_edge(u, v, **data): u then v are created when missing; the edge
\* is a new parallel edge of the pair (u, v), never merged
add_edge(g, u, v, data) ==
  LET g1 == IF HasNode(g, u) THEN g ELSE add_node(g, u, EmptyDict)
      g2 == IF HasNode(g1, v) THEN g1 ELSE add_node(g1, v, EmptyDict)
      nbrs == g2.succ[u]
      i == SuccIndex(nbrs, v)
  IN  IF i = 0
      THEN [g2 EXCEPT !.succ[u] = Append(nbrs, [v |-> v, eds |-> <<data>>])]
      ELSE [g2 EXCEPT !.succ[u][i].eds = Append(nbrs[i].eds, data)]

RECURSIVE KeyDictEdges(_, _, _)
KeyDictEdges(u, v, eds) ==
  IF eds = <<>> THEN <<>>
  ELSE <<[u |-> u, v |-> v, d |-> Head(eds)]>> \o KeyDictEdges(u, v, Tail(eds))

RECURSIVE NbrEdges(_, _)
NbrEdges(u, nbrs) ==
  IF nbrs = <<>> THEN <<>>
  ELSE KeyDictEdges(u, Head(nbrs).v, Head(nbrs).eds) \o NbrEdges(u, Tail(nbrs))

\* G.out_edges(n, data=True)
out_edges(g, n) == NbrEdges(n, g.succ[n])

RECURSIVE EdgesFrom(_, _)
EdgesFrom(g, ns) ==
  IF ns = <<>> THEN <<>>
  ELSE out_edges(g, Head(ns)) \o EdgesFrom(g, Tail(ns))

\* G.edges(data=True): node by node in node order, successor by successor,
\* parallel edge by parallel edge
edges(g) == EdgesFrom(g, g.order)

IsInEdge(e, n) == e.v = n

\* G.in_edges(n, data=True), read off the edge list es of the graph
in_edges(es, n) == SelectSeq(es, LAMBDA e : IsInEdge(e, n))

-----------------------------------------------------------------------------
(* scripts/build_graph.py *)

QUEUE_NAME == "order.events"

\* PUB_RE = \bpublish(ed)?\b, case-insensitive
PUB_RE_search(msg) == \E i \in 1..Len(msg) : msg[i] \in {"publish", "published"}

\* CON_RE without its second alternative: \bconsum(e|ed|ing)\b alone
CON_RE_search_consume_only(msg) ==
  \E i \in 1..Len(msg) : msg[i] \in {"consume", "consumed", "consuming"}

\* CON_RE = \bconsum(e|ed|ing)\b|\bprocess(ing)?\b, case-insensitive
CON_RE_search(msg) ==
  \E i \in 1..Len(msg) :
     msg[i] \in {"consume", "consumed", "consuming", "process", "processing"}

\* event_point = service.name + "_" + event name
EventPointId(svc, name) == svc \o "_" \o name

\* one slot for the previous EventPoint, shared by all keys
PrevKeyShared(did) == "@prev"

\* the key under which last_by_id keeps a key's previous EventPoint
PrevKey(did) == did \o "@prev"

\* the lag of a consume row counted from the first instant of the frame
DeliveredLagSinceStart(ts, row) == ts

\* the lag of a consume row as the code computes it: the row's parsed
\* timestamp minus the same row's timestamp parsed again
DeliveredLag(ts, row) == ts - row.timestamp

\* the guard asking whether any key was handed to the Queue
AnyHandOffIsQueue(lbi, did) == \E k \in DOMAIN lbi : lbi[k] = QUEUE_NAME

\* the guard of the lag computation
LastHandOffIsQueue(lbi, did) == did \in DOMAIN lbi /\ lbi[did] = QUEUE_NAME

\* last_by_id.get(did + "@prev") followed by `if prev and prev != eid`
LinksPrev(lbi, did, eid) ==
  LET prev == DictGet(lbi, PrevKey(did))
  IN  prev # None /\ prev[1] # "" /\ prev[1] # eid

\* the two tests in the other order: CON_RE first, PUB_RE second
ClassifyConsumeFirst(msg) ==
  IF CON_RE_search(msg) THEN "Consume"
  ELSE IF PUB_RE_search(msg) THEN "Publish" ELSE "Other"

\* `if PUB_RE.search(msg): ... elif CON_RE.search(msg): ...`
Classify(msg) ==
  IF PUB_RE_search(msg) THEN "Publish"
  ELSE IF CON_RE_search(msg) THEN "Consume" ELSE "Other"

\* the Queue node created for every row, before the message is classified
HopStepEagerQueue(g, lbi, row, ts) ==
  LET eid == row.event_point
      did == row.corr_key
      cls == Classify(row.message)
      gq  == add_node(g, QUEUE_NAME, [type |-> "Queue"])
  IN  IF cls = "Publish"
      THEN <<add_edge(gq, eid, QUEUE_NAME, [rel |-> "PUBLISHED", ts |-> ToString(ts)]),
             DictUpdate(lbi, [k \in {did} |-> QUEUE_NAME])>>
      ELSE IF cls = "Consume"
      THEN LET lag == IF LastHandOffIsQueue(lbi, did)
                      THEN Some(DeliveredLag(ts, row))
                      ELSE None
           IN  <<add_edge(gq, QUEUE_NAME, eid,
                          [rel |-> "DELIVERED", lag |-> lag, ts |-> ToString(ts)]),
                 lbi>>
      ELSE <<gq, lbi>>

\* the async-hop part of one loop iteration: <<graph, last_by_id>>
HopStep(g, lbi, row, ts) ==
  LET eid == row.event_point
      did == row.corr_key
      cls == Classify(row.message)
  IN  IF cls = "Publish"
      THEN <<add_edge(add_node(g, QUEUE_NAME, [type |-> "Queue"]),
                      eid, QUEUE_NAME, [rel |-> "PUBLISHED", ts |-> ToString(ts)]),
             DictUpdate(lbi, [k \in {did} |-> QUEUE_NAME])>>
      ELSE IF cls = "Consume"
      THEN LET lag == IF LastHandOffIsQueue(lbi, did)
                      THEN Some(DeliveredLag(ts, row))
                      ELSE None
           IN  <<add_edge(add_node(g, QUEUE_NAME, [type |-> "Queue"]),
                          QUEUE_NAME, eid,
                          [rel |-> "DELIVERED", lag |-> lag, ts |-> ToString(ts)]),
                 lbi>>
      ELSE <<g, lbi>>

\* the previous-EventPoint pointer written once per key and never moved
PrecedesStepStalePrev(g, lbi, row) ==
  LET eid == row.event_point
      did == row.corr_key
      g1 == IF LinksPrev(lbi, did, eid)
            THEN add_edge(g, lbi[PrevKey(did)], eid, [rel |-> "PRECEDES"])
            ELSE g
  IN  <<g1, IF PrevKey(did) \in DOMAIN lbi THEN lbi
            ELSE DictUpdate(lbi, [k \in {PrevKey(did)} |-> eid])>>

\* the PRECEDES part of one loop iteration: <<graph, last_by_id>>
PrecedesStep(g, lbi, row) ==
  LET eid == row.event_point
      did == row.corr_key
      g1 == IF LinksPrev(lbi, did, eid)
            THEN add_edge(g, lbi[PrevKey(did)], eid, [rel |-> "PRECEDES"])
            ELSE g
  IN  <<g1, DictUpdate(lbi, [k \in {PrevKey(did)} |-> eid])>>

\* one iteration of the loop of _build_nx over a row of the sorted frame
\* (raw is message[:250]: the whole message, for the short messages here)
BuildRow(g, lbi, row) ==
  LET eid == row.event_point
      did == row.corr_key
      ts  == row.timestamp
      g1 == add_node(g, did, [type |-> "DataInstance"])
      g2 == add_node(g1, eid, [type |-> "EventPoint", svc |-> row.svc,
                               ts |-> ToString(ts), raw |-> row.message])
      g3 == add_edge(g2, eid, did, [rel |-> "PROCESSED", ts |-> ToString(ts)])
      h  == HopStep(g3, lbi, row, ts)
  IN  PrecedesStep(h[1], h[2], row)

\* the timestamps the next row of the sorted frame may carry
NextTimes == IF rows = <<>> THEN {0}
             ELSE {rows[Len(rows)].timestamp + gap : gap \in Gaps}

\* the rows normalize_events.main can write: the event-point id is the
\* service name joined to the event name given to the message
Rows(times) ==
  { [event_point |-> EventPointId(svc, name), corr_key |-> key, svc |-> svc,
     timestamp |-> t, message |-> msg] :
       svc \in Services, name \in ActionNames, key \in Keys,
       t \in times, msg \in Messages }

\* the timestamps the next row of the demo frame may carry
NextDemoTimes == IF rows = <<>> THEN {0}
                 ELSE {rows[Len(rows)].timestamp + gap : gap \in DemoGaps}

\* the rows normalize_events.main writes for the demo services
DemoRows(times) ==
  { [event_point |-> EventPointId(svc, name), corr_key |-> key, svc |-> svc,
     timestamp |-> t, message |-> msg] :
       svc \in DemoServices, name \in ActionNames, key \in DemoKeys,
       t \in times, msg \in DemoMessages }

\* the rows of the frame in the order given by the permutation p
Permuted(df, p) == [i \in 1..Len(df) |-> df[p[i]]]

IsAscending(df) ==
  \A i, j \in 1..Len(df) : i < j => df[i].timestamp <= df[j].timestamp

\* df.sort_values("timestamp"): kind defaults to "quicksort", which orders
\* the rows by timestamp and makes no promise on the order of rows whose
\* timestamps are equal; every ascending arrangement is an outcome
sort_values(df) ==
  {Permuted(df, p) : p \in {q \in [1..Len(df) -> 1..Len(df)] :
                              /\ \A i, j \in 1..Len(df) : i # j => q[i] # q[j]
                              /\ IsAscending(Permuted(df, q))}}

\* the loop of _build_nx over the rows of the sorted frame:
\* <<graph, last_by_id>>
RECURSIVE BuildRows(_, _, _)
BuildRows(g, lbi, df) ==
  IF df = <<>> THEN <<g, lbi>>
  ELSE LET r == BuildRow(g, lbi, Head(df))
       IN  BuildRows(r[1], r[2], Tail(df))

\* last_by_id kept at module level: a call starts from what the call
\* before it left
KeptLastById(left) == left

\* `last_by_id: dict[str, str] = {}`: a local of _build_nx, made anew by
\* each call whatever the call before it left
NewLastById(left) == EmptyDict

\* _build_nx called on a sorted frame whose timestamps all differ, which
\* sort_values leaves as it is: <<graph, last_by_id>>
build_nx(left, df) == BuildRows(MultiDiGraph, NewLastById(left), df)

\* the rows pd.read_csv can give the builder: a row keeps its place in the
\* file as its index label
FrameRows(index) ==
  { [event_point |-> EventPointId(svc, name), corr_key |-> key, svc |-> svc,
     timestamp |-> t, message |-> msg, index |-> index] :
       svc \in Services, name \in ActionNames, key \in FrameKeys,
       t \in FrameTimes, msg \in FrameMessages }

\* SET.GRAPH_BACKEND.lower(), from the environment variable GRAPH_BACKEND
Backends == {"networkx", "neo4j"}

HasRel(d) == "rel" \in DOMAIN d

\* the data dicts of parallel edges, the first one that still has its
\* relation having it popped
RECURSIVE PopRelInEds(_)
PopRelInEds(eds) ==
  IF eds = <<>> THEN <<>>
  ELSE IF HasRel(Head(eds)) THEN <<DictPop(Head(eds), "rel")>> \o Tail(eds)
  ELSE <<Head(eds)>> \o PopRelInEds(Tail(eds))

SomeRelIn(eds) == \E i \in 1..Len(eds) : HasRel(eds[i])

RECURSIVE PopRelInNbrs(_)
PopRelInNbrs(nbrs) ==
  IF nbrs = <<>> THEN <<>>
  ELSE IF SomeRelIn(Head(nbrs).eds)
  THEN <<[Head(nbrs) EXCEPT !.eds = PopRelInEds(Head(nbrs).eds)]>> \o Tail(nbrs)
  ELSE <<Head(nbrs)>> \o PopRelInNbrs(Tail(nbrs))

SomeRelFrom(g, n) == \E i \in 1..Len(g.succ[n]) : SomeRelIn(g.succ[n][i].eds)

\* some edge has not been visited by the loop of _commit_neo4j
SomeRel(g) == \E n \in DOMAIN g.succ : SomeRelFrom(g, n)

\* one iteration of `for u, v, d in G.edges(data=True)` of _commit_neo4j:
\* d is the edge's own data dict in G, and d.pop("rel") takes the relation
\* out of it; the loop visits the edges in the order of G.edges, so the
\* edge it is at is the first one that still has its relation
CommitEdgeOf(g) ==
  LET n == g.order[CHOOSE i \in 1..Len(g.order) :
                     /\ SomeRelFrom(g, g.order[i])
                     /\ \A j \in 1..(i - 1) : ~SomeRelFrom(g, g.order[j])]
  IN  [g EXCEPT !.succ[n] = PopRelInNbrs(g.succ[n])]

-----------------------------------------------------------------------------
(* scripts/detect_anomalies.py *)

\* `if lag > 1.0`: the slow-hop threshold, 1.0 s in half seconds
SlowThreshold == 2

\* a value used as a condition: None and zero are false
Truthy(x) == x # None /\ x[1] # 0

\* d.get("lag") on an edge's data dict
GetLag(d) == IF "lag" \in DOMAIN d THEN d.lag ELSE None

\* float(e_data.get("lag", 0)), 0 on TypeError
edge_lag(d) == IF GetLag(d) = None THEN 0 ELSE GetLag(d)[1]

\* d["rel"] == "DELIVERED" and d.get("lag")
CarriesLag(d) == d.rel = "DELIVERED" /\ Truthy(GetLag(d))

\* f'{u}->{v}'
GroupKey(u, v) == u \o "->" \o v

\* lags[key].append(x) on the insertion-ordered defaultdict(list)
AppendLag(lags, key, x) ==
  IF \E i \in 1..Len(lags) : lags[i].key = key
  THEN LET i == CHOOSE i \in 1..Len(lags) : lags[i].key = key
       IN  [lags EXCEPT ![i].vals = Append(lags[i].vals, x)]
  ELSE Append(lags, [key |-> key, vals |-> <<x>>])

RECURSIVE CollectLags(_, _)
CollectLags(es, lags) ==
  IF es = <<>> THEN lags
  ELSE LET e == Head(es)
       IN  CollectLags(Tail(es),
                       IF CarriesLag(e.d)
                       THEN AppendLag(lags, GroupKey(e.u, e.v), edge_lag(e.d))
                       ELSE lags)

\* x put into the ascending sequence s
InsertAsc(s, x) ==
  LET k == Cardinality({i \in 1..Len(s) : s[i] <= x})
  IN  SubSeq(s, 1, k) \o <<x>> \o SubSeq(s, k + 1, Len(s))

RECURSIVE Sorted(_)
Sorted(s) == IF s = <<>> THEN <<>> ELSE InsertAsc(Sorted(Tail(s)), Head(s))

\* statistics.median, doubled so that the mean of the two middle values of
\* an even-sized sample stays an integer
median2(vals) ==
  LET s == Sorted(vals)
      n == Len(s)
  IN  IF n % 2 = 1 THEN 2 * s[(n + 1) \div 2]
      ELSE s[n \div 2] + s[n \div 2 + 1]

\* max(items, key=median): the first item whose key is the greatest
RECURSIVE MaxByMedian(_, _)
MaxByMedian(items, best) ==
  IF items = <<>> THEN best
  ELSE MaxByMedian(Tail(items),
                   IF median2(Head(items).vals) > median2(best.vals)
                   THEN Head(items) ELSE best)

\* part 1 of scan: the lag samples of each group, in the order the groups
\* were first met
GroupLags(es) == CollectLags(es, <<>>)

\* the bottleneck, None when no group was made
Bottleneck(lags) ==
  IF lags = <<>> THEN None
  ELSE Some(MaxByMedian(Tail(lags), Head(lags)))

NodeTypeIs(g, n, t) == DictGet(g.attr[n], "type") = Some(t)

\* the loop over G.out_edges(event_node): published is set, never cleared
RECURSIVE ScanOut(_, _, _)
ScanOut(g, es, published) ==
  IF es = <<>> THEN published
  ELSE ScanOut(g, Tail(es),
               IF NodeTypeIs(g, Head(es).v, "Queue") /\ Head(es).d.rel = "PUBLISHED"
               THEN TRUE ELSE published)

\* the loop over G.in_edges(event_node): consumed is set, never cleared
RECURSIVE ScanIn(_, _, _)
ScanIn(g, es, consumed) ==
  IF es = <<>> THEN consumed
  ELSE ScanIn(g, Tail(es),
              IF NodeTypeIs(g, Head(es).u, "Queue") /\ Head(es).d.rel = "DELIVERED"
              THEN TRUE ELSE consumed)

\* the test made per EventPoint: an EventPoint that published and got no
\* delivery marks the data node, whatever the other EventPoints received
RECURSIVE ScanIntoPerPoint(_, _, _, _, _)
ScanIntoPerPoint(g, es0, es, data_node, flags) ==
  IF es = <<>> THEN flags
  ELSE LET e == Head(es)
       IN  ScanIntoPerPoint(g, es0, Tail(es), data_node,
                    IF e.v = data_node /\ NodeTypeIs(g, e.u, "EventPoint")
                    THEN <<flags[1] \/ (ScanOut(g, out_edges(g, e.u), FALSE)
                                          /\ ~ScanIn(g, in_edges(es0, e.u), FALSE)),
                           FALSE>>
                    ELSE flags)

\* the loop over G.edges() for one data node: <<published, consumed>>;
\* es0 is the graph's edge list, es what is left of it to visit
RECURSIVE ScanInto(_, _, _, _, _)
ScanInto(g, es0, es, data_node, flags) ==
  IF es = <<>> THEN flags
  ELSE LET e == Head(es)
       IN  ScanInto(g, es0, Tail(es), data_node,
                    IF e.v = data_node /\ NodeTypeIs(g, e.u, "EventPoint")
                    THEN <<ScanOut(g, out_edges(g, e.u), flags[1]),
                           ScanIn(g, in_edges(es0, e.u), flags[2])>>
                    ELSE flags)

\* `if published and not consumed`
IsLost(flags) == flags[1] /\ ~flags[2]

\* part 2 of scan: the lost DataInstances, in node order
RECURSIVE LostFrom(_, _, _)
LostFrom(g, es, ns) ==
  IF ns = <<>> THEN <<>>
  ELSE LET n == Head(ns)
       IN  IF g.attr[n].type # "DataInstance" THEN LostFrom(g, es, Tail(ns))
           ELSE (IF IsLost(ScanInto(g, es, es, n, <<FALSE, FALSE>>))
                 THEN <<n>> ELSE <<>>) \o LostFrom(g, es, Tail(ns))

\* the threshold taken as inclusive
IsSlowInclusive(lag) == lag >= SlowThreshold

\* `if lag > 1.0`
IsSlow(lag) == lag > SlowThreshold

RECURSIVE CollectSlow(_)
CollectSlow(es) ==
  IF es = <<>> THEN <<>>
  ELSE LET e == Head(es)
       IN  (IF CarriesLag(e.d) /\ IsSlow(edge_lag(e.d))
            THEN <<[u |-> e.u, v |-> e.v, lag |-> edge_lag(e.d)]>>
            ELSE <<>>) \o CollectSlow(Tail(es))

\* x put into the descending sequence s behind the entries of equal lag
InsertDesc(s, x) ==
  LET k == Cardinality({i \in 1..Len(s) : s[i].lag >= x.lag})
  IN  SubSeq(s, 1, k) \o <<x>> \o SubSeq(s, k + 1, Len(s))

\* slow_hops.sort(key=lag, reverse=True): stable
RECURSIVE SortDesc(_)
SortDesc(s) ==
  IF s = <<>> THEN <<>>
  ELSE InsertDesc(SortDesc(SubSeq(s, 1, Len(s) - 1)), s[Len(s)])

\* part 3 of scan: the slow hops
SlowHops(es) == SortDesc(CollectSlow(es))

(* The report is the list md: a line is the sequence of the pieces its   *)
(* text is made of, the markdown mark first. Lags are in half seconds,   *)
(* printed in seconds with two decimals.                                 *)

\* the mark of a markdown code span, the character U+0060, which a string
\* of this notation cannot hold
Tick == "U+0060"

TwoDigits(n) == IF n < 10 THEN "0" \o ToString(n) ELSE ToString(n)

\* f"{x:.2f}" of a number of hundredths
FmtHundredths(h) == ToString(h \div 100) \o "." \o TwoDigits(h % 100)

\* the hundredths nearest to n / d, a tie going to the even one
RoundHalfEven(n, d) ==
  LET fl == n \div d
      r2 == 2 * (n % d)
  IN  IF r2 > d \/ (r2 = d /\ fl % 2 = 1) THEN fl + 1 ELSE fl

\* f"{lag:.2f}" of a lag
FmtLag(lag) == FmtHundredths(50 * lag)

\* f"{statistics.median(vals):.2f}"
FmtMedian(vals) == FmtHundredths(25 * median2(vals))

RECURSIVE Sum(_)
Sum(vals) == IF vals = <<>> THEN 0 ELSE Head(vals) + Sum(Tail(vals))

RECURSIVE SumSquares(_)
SumSquares(vals) ==
  IF vals = <<>> THEN 0 ELSE Head(vals) * Head(vals) + SumSquares(Tail(vals))

\* f"{sum(vals)/len(vals):.2f}"
FmtMean(vals) == FmtHundredths(RoundHalfEven(50 * Sum(vals), Len(vals)))

\* f"{statistics.stdev(vals):.2f}": the hundredths h nearest to the root of
\* the sample variance, (2h - 1)^2 <= 4 * 10^4 * variance < (2h + 1)^2
FmtStdev(vals) ==
  LET n   == Len(vals)
      num == 10000 * (n * SumSquares(vals) - Sum(vals) * Sum(vals))
      den == n * (n - 1)
  IN  FmtHundredths(CHOOSE h \in 0..2000 :
                      /\ (h = 0 \/ (2 * h - 1) * (2 * h - 1) * den <= num)
                      /\ num < (2 * h + 1) * (2 * h + 1) * den)

\* the Bottleneck section
BottleneckSection(bottleneck) ==
  <<<<"## ", "Bottleneck hop">>>> \o
  (IF bottleneck # None
   THEN LET name == bottleneck[1].key
            vals == bottleneck[1].vals
        IN  <<<<Tick, name, Tick, " median lag **", FmtMedian(vals), "s** ">>>> \o
            (IF Len(vals) > 1
             THEN << <<"\n- ", "Minimum lag: ", FmtLag(Sorted(vals)[1]), "s">>,
                     <<"- ", "Maximum lag: ", FmtLag(Sorted(vals)[Len(vals)]), "s">>,
                     <<"- ", "Average lag: ", FmtMean(vals), "s">> >> \o
                  (IF Len(vals) > 2
                   THEN <<<<"- ", "Standard deviation: ", FmtStdev(vals), "s">>>>
                   ELSE <<>>)
             ELSE <<>>)
   ELSE <<<<"_No publish to consume edges with lag found._">>>>)

\* the first n entries of a list: xs[:n]
Take(xs, n) == SubSeq(xs, 1, IF Len(xs) < n THEN Len(xs) ELSE n)

\* the Lost messages section written with `if lost is not None`
LostSectionAlwaysListed(lost) ==
  <<<<"\n## ", "Lost messages">>>> \o
  <<<<"**", ToString(Len(lost)), " lost DataInstances:**">>>> \o
  [i \in 1..Len(Take(lost, 20)) |-> <<"- ", lost[i]>>]

\* the Lost messages section
LostSection(lost) ==
  <<<<"\n## ", "Lost messages">>>> \o
  (IF lost # <<>>
   THEN <<<<"**", ToString(Len(lost)), " lost DataInstances:**">>>> \o
        [i \in 1..Len(Take(lost, 20)) |-> <<"- ", lost[i]>>] \o
        (IF Len(lost) > 20
         THEN <<<<"- ", "_(and ", ToString(Len(lost) - 20), " more...)_">>>>
         ELSE <<>>)
   ELSE <<<<"_No lost messages detected._">>>>)

\* G.nodes[v].get("svc", "unknown")
ToSvc(g, v) == IF "svc" \in DOMAIN g.attr[v] THEN g.attr[v].svc ELSE "unknown"

\* the Slow hops section
SlowSection(g, slow_hops) ==
  <<<<"\n## ", "Slow hops">>>> \o
  (IF slow_hops # <<>>
   THEN <<<<"**", ToString(Len(slow_hops)), " slow message deliveries:**">>>> \o
        [i \in 1..Len(Take(slow_hops, 10)) |->
           <<"- ", Tick, slow_hops[i].u, " to ", slow_hops[i].v, Tick, " (",
             ToSvc(g, slow_hops[i].v), "): **", FmtLag(slow_hops[i].lag), "s**">>] \o
        (IF Len(slow_hops) > 10
         THEN <<<<"- ", "_(and ", ToString(Len(slow_hops) - 10), " more...)_">>>>
         ELSE <<>>)
   ELSE <<<<"_No significant delivery delays detected._">>>>)

\* the lines of the report; the instant of generation is not modelled
Report(g, bottleneck, lost, slow_hops) ==
  << <<"# ", "MicroLink Anomaly Report">>, <<"_Generated ", "utcnow", "Z_\n">> >>
  \o BottleneckSection(bottleneck) \o LostSection(lost) \o SlowSection(g, slow_hops)

\* scan: its locals when it renders the report, and the report
scan(g) ==
  LET es   == edges(g)
      lags == GroupLags(es)
      bottleneck == Bottleneck(lags)
      lost       == LostFrom(g, es, g.order)
      slow_hops  == SlowHops(es)
  IN  [lags       |-> lags,
       bottleneck |-> bottleneck,
       lost       |-> lost,
       slow_hops  |-> slow_hops,
       md         |-> Report(g, bottleneck, lost, slow_hops)]

\* the graph object when scan returns: scan calls G.edges, G.nodes,
\* G.out_edges and G.in_edges and reads the dicts they yield with d[...]
\* and d.get(...); it makes no call that writes to G or to one of its dicts
scan_effect(g) == g

NoFindings ==
  [lags |-> <<>>, bottleneck |-> None, lost |-> <<>>, slow_hops |-> <<>>,
   md |-> <<>>]

-----------------------------------------------------------------------------
(* scripts/visualize_flow.py *)

\* `for u, v, _ in G.edges(data=True): if v == corr_key: nodes.add(u)`
ProcessorsOf(es, corr_key) ==
  {es[i].u : i \in {j \in 1..Len(es) : es[j].v = corr_key}}

\* the queue nodes lineage_html adds for the EventPoint node
QueuesOf(g, es, node) ==
  IF NodeTypeIs(g, node, "EventPoint")
  THEN {e.v : e \in {x \in {out_edges(g, node)[i] : i \in 1..Len(out_edges(g, node))} :
                       x.d.rel = "PUBLISHED"}}
       \cup {e.u : e \in {x \in {in_edges(es, node)[i] : i \in 1..Len(in_edges(es, node))} :
                            x.d.rel = "DELIVERED"}}
  ELSE {}

\* the node set of the lineage view: the key, the nodes with an edge into
\* it, and the queues of those of them that are EventPoints (the loop runs
\* over a copy of the set, so the queues' own neighbours are not added)
LineageNodes(g, es, corr_key) ==
  LET nodes == {corr_key} \cup ProcessorsOf(es, corr_key)
  IN  nodes \cup UNION {QueuesOf(g, es, node) : node \in nodes}

\* the event name an EventPoint id ends with: n.split("_")[-1]
ActionOf(n) ==
  CHOOSE name \in ActionNames : \E svc \in Services : n = EventPointId(svc, name)

\* _style: the label of a node of the view
Label(g, n) ==
  IF g.attr[n].type \in {"DataInstance", "Queue"} THEN n
  ELSE g.attr[n].svc \o ":" \o ActionOf(n)

\* H = G.subgraph(nodes), H.nodes(data=True) styled: a read-only view of G
\* in G's node order
StyledNodes(g, nodes) ==
  LET ns == SelectSeq(g.order, LAMBDA n : n \in nodes)
  IN  [i \in 1..Len(ns) |->
         [id |-> ns[i], label |-> Label(g, ns[i]), kind |-> g.attr[ns[i]].type]]

\* H.edges(data=True) styled: red and wide for DELIVERED, wide for PUBLISHED
StyledEdges(es, nodes) ==
  LET hs == SelectSeq(es, LAMBDA e : e.u \in nodes /\ e.v \in nodes)
  IN  [i \in 1..Len(hs) |->
         [u |-> hs[i].u, v |-> hs[i].v, title |-> hs[i].d.rel,
          red |-> hs[i].d.rel = "DELIVERED",
          width |-> IF hs[i].d.rel \in {"PUBLISHED", "DELIVERED"} THEN 2 ELSE 1]]

\* the network lineage_html hands to PyVis
lineage_html(g, corr_key) ==
  LET es    == edges(g)
      nodes == LineageNodes(g, es, corr_key)
  IN  [nodes |-> StyledNodes(g, nodes), edges |-> StyledEdges(es, nodes)]

\* the graph object when lineage_html returns: a relation read and popped
\* from the edge's dict, as _commit_neo4j reads it
lineage_html_popping(g, corr_key) == IF SomeRel(g) THEN CommitEdgeOf(g) ELSE g

\* the graph object when lineage_html returns: it reads G.edges, G.nodes,
\* G.out_edges, G.in_edges and the view G.subgraph(nodes), whose dicts are
\* G's own, with d[...] and d.get(...) only
lineage_html_effect(g, corr_key) == g

\* G.nodes[n].get("svc") or n
ServiceOf(g, n) ==
  LET svc == DictGet(g.attr[n], "svc")
  IN  IF svc # None /\ svc[1] # "" THEN svc[1] ELSE n

\* agg.add_edge(su, sv, weight=1 + former weight, rel=...) on the DiGraph
AggAdd(agg, su, sv, rel) ==
  LET w == IF <<su, sv>> \in DOMAIN agg THEN agg[<<su, sv>>].weight ELSE 0
  IN  DictUpdate(agg, [p \in {<<su, sv>>} |-> [weight |-> 1 + w, rel |-> rel]])

\* the service-level graph of dep_map_html: a weighted edge per pair of
\* services joined by PUBLISHED or DELIVERED edges, self-references skipped
RECURSIVE Aggregate(_, _, _)
Aggregate(g, es, agg) ==
  IF es = <<>> THEN agg
  ELSE LET e  == Head(es)
           su == ServiceOf(g, e.u)
           sv == ServiceOf(g, e.v)
       IN  Aggregate(g, Tail(es),
                     IF e.d.rel \in {"PUBLISHED", "DELIVERED"} /\ su # sv
                     THEN AggAdd(agg, su, sv, e.d.rel)
                     ELSE agg)

dep_map_html(g) == Aggregate(g, edges(g), EmptyDict)

\* the graph object when dep_map_html returns: it reads G.edges and G.nodes
\* and writes to its own DiGraph agg only
dep_map_html_effect(g) == g

NoViews == [lineage |-> None, dep_map |-> None]

-----------------------------------------------------------------------------
(* The pipeline: build the graph from the events frame, then scan it *)

Init ==
  /\ G = MultiDiGraph
  /\ last_by_id = EmptyDict
  /\ rows = <<>>
  /\ pc = "build"
  /\ findings = NoFindings
  /\ views = NoViews

\* _build_nx takes the next row of the sorted frame
Build ==
  /\ pc = "build"
  /\ Len(rows) < MaxEvents
  /\ \E row \in Rows(NextTimes) :
       LET r == BuildRow(G, last_by_id, row)
       IN  /\ G' = r[1]
           /\ last_by_id' = r[2]
           /\ rows' = Append(rows, row)
  /\ UNCHANGED <<pc, findings, views>>

\* the frame is exhausted: _build_nx returns and detect_anomalies scans;
\* scan reads d["rel"] of every edge and raises KeyError on an edge without
Scan ==
  /\ pc \in {"build", "load", "returned", "rendered", "built"}
  /\ IF \A n \in DOMAIN G.succ : \A i \in 1..Len(G.succ[n]) :
          \A j \in 1..Len(G.succ[n][i].eds) : HasRel(G.succ[n][i].eds[j])
     THEN pc' = "scanned" /\ findings' = scan(G)
     ELSE pc' = "KeyError" /\ findings' = findings
  /\ G' = scan_effect(G)
  /\ UNCHANGED <<last_by_id, rows, views>>

Next == Build \/ Scan

Spec == Init /\ [][Next]_vars

-----------------------------------------------------------------------------
(* The pipeline on the events of the demo services *)

\* _build_nx takes the next row of the sorted demo frame
BuildDemo ==
  /\ pc = "build"
  /\ Len(rows) < MaxEvents
  /\ \E row \in DemoRows(NextDemoTimes) :
       LET r == BuildRow(G, last_by_id, row)
       IN  /\ G' = r[1]
           /\ last_by_id' = r[2]
           /\ rows' = Append(rows, row)
  /\ UNCHANGED <<pc, findings, views>>

NextDemo == BuildDemo \/ Scan

SpecDemo == Init /\ [][NextDemo]_vars

-----------------------------------------------------------------------------
(* The graph built a second time from the frame it was built from *)

\* build_graph.main is called again on the same events.csv
Rebuild ==
  /\ pc = "build"
  /\ LET r == build_nx(last_by_id, rows)
     IN  G' = r[1] /\ last_by_id' = r[2]
  /\ pc' = "rebuilt"
  /\ UNCHANGED <<rows, findings, views>>

NextTwice == Build \/ Rebuild

SpecTwice == Init /\ [][NextTwice]_vars

-----------------------------------------------------------------------------
(* build_graph.main with either graph back-end: after _build_nx returns,   *)
(* the neo4j back-end commits the graph inside try/except and main returns *)
(* the graph whether the commit succeeded or raised                        *)

\* `if SET.GRAPH_BACKEND.lower() == "neo4j"`: _commit_neo4j is entered
BeginCommit ==
  /\ pc = "build"
  /\ \E backend \in Backends :
       pc' = IF backend = "neo4j" THEN "commit" ELSE "returned"
  /\ UNCHANGED <<G, last_by_id, rows, findings, views>>

\* tx.run of the next edge, its relation popped to build the query
CommitEdge ==
  /\ pc = "commit"
  /\ SomeRel(G)
  /\ G' = CommitEdgeOf(G)
  /\ UNCHANGED <<last_by_id, rows, pc, findings, views>>

\* the import, the connection, a query or the commit raises: main logs the
\* error and returns G as it is
CommitFails ==
  /\ pc = "commit"
  /\ pc' = "returned"
  /\ UNCHANGED <<G, last_by_id, rows, findings, views>>

\* every edge was sent: tx.commit(), driver.close(), main returns G
CommitDone ==
  /\ pc = "commit"
  /\ ~SomeRel(G)
  /\ pc' = "returned"
  /\ UNCHANGED <<G, last_by_id, rows, findings, views>>

NextMain == Build \/ BeginCommit \/ CommitEdge \/ CommitFails \/ CommitDone \/ Scan

SpecMain == Init /\ [][NextMain]_vars

-----------------------------------------------------------------------------
(* _build_nx on a frame that is not sorted: the frame is read, sorted by   *)
(* timestamp and folded                                                    *)

InitFrame ==
  /\ G = MultiDiGraph
  /\ last_by_id = EmptyDict
  /\ rows = <<>>
  /\ pc = "read"
  /\ findings = NoFindings
  /\ views = NoViews

\* pd.read_csv reads one more row of events.csv
ReadRow ==
  /\ pc = "read"
  /\ Len(rows) < MaxFrameRows
  /\ \E row \in FrameRows(Len(rows)) : rows' = Append(rows, row)
  /\ UNCHANGED <<G, last_by_id, pc, findings, views>>

\* df = df.sort_values("timestamp")
SortFrame ==
  /\ pc = "read"
  /\ \E df \in sort_values(rows) : rows' = df
  /\ pc' = "sorted"
  /\ UNCHANGED <<G, last_by_id, findings, views>>

\* the loop over df.iterrows(), then `return G`
FoldFrame ==
  /\ pc = "sorted"
  /\ LET r == BuildRows(MultiDiGraph, EmptyDict, rows)
     IN  G' = r[1] /\ last_by_id' = r[2]
  /\ pc' = "built"
  /\ UNCHANGED <<rows, findings, views>>

NextFrame == ReadRow \/ SortFrame \/ FoldFrame \/ Scan

SpecFrame == InitFrame /\ [][NextFrame]_vars

-----------------------------------------------------------------------------
(* normalize_events.main up to the filter on the correlation key: the raw  *)
(* log row gets its corr_key column and the rows without key are dropped   *)

InitLogs ==
  /\ G = MultiDiGraph
  /\ last_by_id = EmptyDict
  /\ rows = <<[message |-> <<>>]>>
  /\ pc = "raw"
  /\ findings = NoFindings
  /\ views = NoViews

\* the raw log line as it was written: one more token
WriteToken ==
  /\ pc = "raw"
  /\ Len(rows[1].message) < MaxTokens
  /\ \E tok \in Tokens :
       rows' = <<[message |-> Append(rows[1].message, tok)]>>
  /\ UNCHANGED <<G, last_by_id, pc, findings, views>>

\* df["corr_key"] = df["message"].apply(extract_corr_key)
ExtractKeys ==
  /\ pc = "raw"
  /\ rows' = [i \in 1..Len(rows) |->
                [message  |-> rows[i].message,
                 corr_key |-> extract_corr_key(rows[i].message)]]
  /\ pc' = "keyed"
  /\ UNCHANGED <<G, last_by_id, findings, views>>

\* keep = df.dropna(subset=["corr_key"]); SystemExit(1) when keep is empty
KeepKeyed ==
  /\ pc = "keyed"
  /\ LET keep == SelectSeq(rows, LAMBDA r : r.corr_key # None)
     IN  IF keep = <<>>
         THEN pc' = "SystemExit" /\ rows' = rows
         ELSE pc' = "kept" /\ rows' = keep
  /\ UNCHANGED <<G, last_by_id, findings, views>>

NextLogs == WriteToken \/ ExtractKeys \/ KeepKeyed

SpecLogs == InitLogs /\ [][NextLogs]_vars

-----------------------------------------------------------------------------
(* detect_anomalies run on a graph that was not built here: the pickled *)
(* graph it loads is any graph of the data model                         *)

EventPoints == {EventPointId(svc, name) : svc \in Services, name \in ActionNames}

\* the kind of a node of the data model, told by its id
KindOf(n) ==
  IF n \in Keys THEN "DataInstance"
  ELSE IF n = QUEUE_NAME THEN "Queue" ELSE "EventPoint"

\* the attributes of a node of the data model: an EventPoint has the
\* service its id begins with
KindAttrs(n) ==
  IF KindOf(n) = "EventPoint"
  THEN [type |-> "EventPoint",
        svc  |-> CHOOSE svc \in Services :
                   \E name \in ActionNames : n = EventPointId(svc, name)]
  ELSE [type |-> KindOf(n)]

\* the graph with one more edge, its end points created with their kind
WithEdge(g, e) ==
  add_edge(add_node(add_node(g, e.u, KindAttrs(e.u)), e.v, KindAttrs(e.v)),
           e.u, e.v, e.d)

Edge(u, v, d) == [u |-> u, v |-> v, d |-> d]

CheckoutPoint == EventPointId("checkout-svc", "processEvent")
PaymentPoint == EventPointId("payment-svc", "processEvent")

\* edges of the data model, and edges whose relation does not fit their
\* end points: a PUBLISHED edge to an EventPoint, a DELIVERED edge from
\* one, a PRECEDES edge into a DataInstance
StructureEdges ==
  {Edge(e, k, [rel |-> "PROCESSED"]) : e \in EventPoints, k \in Keys}
  \cup {Edge(e, QUEUE_NAME, [rel |-> "PUBLISHED"]) : e \in EventPoints}
  \cup {Edge(QUEUE_NAME, e, [rel |-> "DELIVERED", lag |-> None]) : e \in EventPoints}
  \cup {Edge(CheckoutPoint, PaymentPoint, [rel |-> "PUBLISHED"]),
        Edge(CheckoutPoint, PaymentPoint, [rel |-> "DELIVERED", lag |-> None]),
        Edge(PaymentPoint, "orderId=2", [rel |-> "PRECEDES"])}

\* visualize_flow.main: the lineage view of one key, then the dependency
\* map; G.nodes[corr_key] raises KeyError for a key that is not in the graph
Render ==
  /\ pc = "load"
  /\ \E order_id \in Keys :
       /\ IF HasNode(G, order_id)
          THEN /\ pc' = "rendered"
               /\ views' = [lineage |-> Some(lineage_html(G, order_id)),
                            dep_map |-> Some(dep_map_html(G))]
               /\ G' = dep_map_html_effect(lineage_html_effect(G, order_id))
          ELSE /\ pc' = "KeyError"
               /\ views' = views
               /\ G' = lineage_html_effect(G, order_id)
  /\ UNCHANGED <<last_by_id, rows, findings>>

NumEdges(g) == Len(edges(g))

InitScan ==
  /\ G = MultiDiGraph
  /\ last_by_id = EmptyDict
  /\ rows = <<>>
  /\ pc = "load"
  /\ findings = NoFindings
  /\ views = NoViews

LoadEdge ==
  /\ pc = "load"
  /\ NumEdges(G) < MaxEdges
  /\ \E e \in StructureEdges : G' = WithEdge(G, e)
  /\ UNCHANGED <<last_by_id, rows, pc, findings, views>>

NextScan == LoadEdge \/ Scan

SpecScan == InitScan /\ [][NextScan]_vars

\* lags of 0.5 s, 1.0 s, 1.5 s, 2.0 s and 4.0 s, a zero lag and a null lag
LagValues == {None, Some(0), Some(1), Some(2), Some(3), Some(4), Some(8)}

\* DELIVERED edges with and without a lag, and a PUBLISHED edge with one
LagEdges ==
  {Edge(QUEUE_NAME, e, [rel |-> "DELIVERED", lag |-> l]) :
      e \in EventPoints, l \in LagValues}
  \cup {Edge(QUEUE_NAME, e, [rel |-> "DELIVERED"]) : e \in EventPoints}
  \cup {Edge(e, QUEUE_NAME, [rel |-> "PUBLISHED", lag |-> Some(8)]) : e \in EventPoints}

LoadLagEdge ==
  /\ pc = "load"
  /\ NumEdges(G) < MaxLagEdges
  /\ \E e \in LagEdges : G' = WithEdge(G, e)
  /\ UNCHANGED <<last_by_id, rows, pc, findings, views>>

NextLag == LoadLagEdge \/ Scan

SpecLag == InitScan /\ [][NextLag]_vars

\* a loaded graph rendered, scanned, or rendered and then scanned
NextRender == LoadEdge \/ Render \/ Scan

SpecRender == InitScan /\ [][NextRender]_vars

\* lags of 0.5 s, 1.5 s and 4.0 s, a zero lag and a null lag
ReportLags == {None, Some(0), Some(1), Some(3), Some(8)}

\* DELIVERED edges with and without a lag, PUBLISHED and PROCESSED edges:
\* graphs with and without bottleneck, lost keys and slow hops
ReportEdges ==
  {Edge(QUEUE_NAME, e, [rel |-> "DELIVERED", lag |-> l]) :
      e \in EventPoints, l \in ReportLags}
  \cup {Edge(e, QUEUE_NAME, [rel |-> "PUBLISHED"]) : e \in EventPoints}
  \cup {Edge(e, "orderId=1", [rel |-> "PROCESSED"]) : e \in EventPoints}

LoadReportEdge ==
  /\ pc = "load"
  /\ NumEdges(G) < MaxReportEdges
  /\ \E e \in ReportEdges : G' = WithEdge(G, e)
  /\ UNCHANGED <<last_by_id, rows, pc, findings, views>>

NextReport == LoadReportEdge \/ Scan

SpecReport == InitScan /\ [][NextReport]_vars

-----------------------------------------------------------------------------
(* Vocabulary of the properties *)

\* how many times x occurs in the sequence s
CountIn(s, x) == Cardinality({i \in 1..Len(s) : s[i] = x})

EdgeSet(g) == {edges(g)[i] : i \in 1..Len(edges(g))}

NodesOfKind(g, t) == {n \in DOMAIN g.attr : NodeTypeIs(g, n, t)}

\* the EventPoints with an edge into d
PointsInto(g, d) ==
  {e.u : e \in {x \in EdgeSet(g) : x.v = d /\ NodeTypeIs(g, x.u, "EventPoint")}}

PublishesToQueue(g, n) ==
  \E e \in EdgeSet(g) :
     e.u = n /\ e.d.rel = "PUBLISHED" /\ NodeTypeIs(g, e.v, "Queue")

DeliveredFromQueue(g, n) ==
  \E e \in EdgeSet(g) :
     e.v = n /\ e.d.rel = "DELIVERED" /\ NodeTypeIs(g, e.u, "Queue")

RowsOf(k) == {i \in 1..Len(rows) : rows[i].corr_key = k}

RowsClassified(k, cls) == {i \in RowsOf(k) : Classify(rows[i].message) = cls}

LastRow == rows[Len(rows)]

\* the data dict of the edge u -> v added last
LastEdgeData(g, u, v) ==
  LET nbr == g.succ[u][SuccIndex(g.succ[u], v)]
  IN  nbr.eds[Len(nbr.eds)]

\* how many edges u -> v carry the relation rel
CountEdges(g, u, v, rel) ==
  IF ~HasNode(g, u) \/ SuccIndex(g.succ[u], v) = 0 THEN 0
  ELSE LET eds == g.succ[u][SuccIndex(g.succ[u], v)].eds
       IN  Cardinality({i \in 1..Len(eds) : eds[i].rel = rel})

\* the most recent Publish row of key k before the row just folded
LastPublishOf(k) ==
  LET ps == {i \in RowsClassified(k, "Publish") : i < Len(rows)}
  IN  CHOOSE i \in ps : \A j \in ps : j <= i

\* the targets of the outgoing PROCESSED edges of n, one per edge
ProcessedTargets(g, n) ==
  LET out == SelectSeq(out_edges(g, n), LAMBDA e : e.d.rel = "PROCESSED")
  IN  [i \in 1..Len(out) |-> out[i].v]

\* rows i and j are of one key, with no row of that key between them
Consecutive(i, j) ==
  /\ i < j
  /\ rows[i].corr_key = rows[j].corr_key
  /\ \A m \in (i + 1)..(j - 1) : rows[m].corr_key # rows[i].corr_key

-----------------------------------------------------------------------------
(* C1: once scan has run on a graph, a DataInstance d is in the lost list  *)
(* exactly when some EventPoint with an edge into d has a PUBLISHED edge   *)
(* to a Queue node and no EventPoint with an edge into d has a DELIVERED   *)
(* edge from a Queue node; the test ranges over all of d's EventPoints.    *)
C1_LostIffPublishedAndNeverDelivered ==
  pc = "scanned" =>
    \A d \in NodesOfKind(G, "DataInstance") :
       Contains(findings.lost, d) <=>
         /\ \E e \in PointsInto(G, d) : PublishesToQueue(G, e)
         /\ ~ \E e \in PointsInto(G, d) : DeliveredFromQueue(G, e)

\* d is published through one EventPoint that got no delivery and is
\* delivered through another one: d is not lost
C1_Witness ==
  /\ pc = "scanned"
  /\ \E d \in NodesOfKind(G, "DataInstance") :
       /\ \E e \in PointsInto(G, d) :
            PublishesToQueue(G, e) /\ ~DeliveredFromQueue(G, e)
       /\ \E e \in PointsInto(G, d) : DeliveredFromQueue(G, e)
       /\ ~Contains(findings.lost, d)

-----------------------------------------------------------------------------
(* C2: end to end, after the build and the scan, a key is in the lost list *)
(* exactly when some event of that key was classified Publish and no event *)
(* of that key was classified Consume, whatever the other keys' events     *)
(* and whatever event-point ids the events carry.                          *)
C2_LostIffKeyPublishedAndNeverConsumed ==
  pc = "scanned" =>
    \A k \in Keys :
       Contains(findings.lost, k) <=>
         /\ RowsClassified(k, "Publish") # {}
         /\ RowsClassified(k, "Consume") = {}

-----------------------------------------------------------------------------
(* C3: when the row just folded is a Consume of a key whose last hand-off  *)
(* is the Queue, the lag on its DELIVERED edge is the row's timestamp      *)
(* minus the timestamp of the key's most recent earlier Publish row.       *)
C3_LagIsPublishToConsumeTime ==
  ( /\ pc = "build"
    /\ rows # <<>>
    /\ Classify(LastRow.message) = "Consume"
    /\ LastHandOffIsQueue(last_by_id, LastRow.corr_key) )
  => LastEdgeData(G, QUEUE_NAME, LastRow.event_point).lag
       = Some(LastRow.timestamp - rows[LastPublishOf(LastRow.corr_key)].timestamp)

-----------------------------------------------------------------------------
(* C4, as claimed: every EventPoint node has exactly one outgoing          *)
(* PROCESSED edge, to the DataInstance of the key of an event that         *)
(* carried its id.                                                         *)
C4_ExactlyOneProcessedEdge ==
  \A n \in NodesOfKind(G, "EventPoint") :
     /\ Len(ProcessedTargets(G, n)) = 1
     /\ \E j \in 1..Len(rows) :
          rows[j].event_point = n /\ rows[j].corr_key = ProcessedTargets(G, n)[1]

(* C4, amended: every EventPoint node has one outgoing PROCESSED edge per  *)
(* event that carried its id and no other: for each key, as many           *)
(* PROCESSED edges to that key's DataInstance as events of that key        *)
(* carried the id, hence at least one PROCESSED edge in all.               *)
C4_OneProcessedEdgePerEvent ==
  \A n \in NodesOfKind(G, "EventPoint") :
     LET targets == ProcessedTargets(G, n)
     IN  /\ targets # <<>>
         /\ \A i \in 1..Len(targets) : NodeTypeIs(G, targets[i], "DataInstance")
         /\ \A k \in NodesOfKind(G, "DataInstance") :
              CountIn(targets, k)
                = Cardinality({j \in RowsOf(k) : rows[j].event_point = n})

\* one EventPoint whose id was carried by events of two keys
C4_Witness ==
  \E n \in NodesOfKind(G, "EventPoint") :
     \E i, j \in 1..Len(ProcessedTargets(G, n)) :
        ProcessedTargets(G, n)[i] # ProcessedTargets(G, n)[j]

-----------------------------------------------------------------------------
(* C5, as claimed: for two events of one key with no event of that key     *)
(* folded between them, the graph has a PRECEDES edge from the first       *)
(* event's EventPoint to the second's.                                     *)
C5_PrecedesBetweenConsecutiveEvents ==
  \A i, j \in 1..Len(rows) :
     Consecutive(i, j) =>
       CountEdges(G, rows[i].event_point, rows[j].event_point, "PRECEDES") > 0

(* C5, amended: the PRECEDES edge exists whenever the two consecutive      *)
(* events of the key carry different event-point ids.                      *)
C5_PrecedesBetweenDistinctPoints ==
  \A i, j \in 1..Len(rows) :
     (Consecutive(i, j) /\ rows[i].event_point # rows[j].event_point) =>
       CountEdges(G, rows[i].event_point, rows[j].event_point, "PRECEDES") > 0

\* two consecutive events of a key at different EventPoints, an event of
\* another key folded between them
C5_Witness ==
  \E i, j \in 1..Len(rows) :
     /\ Consecutive(i, j)
     /\ j > i + 1
     /\ rows[i].event_point # rows[j].event_point
     /\ CountEdges(G, rows[i].event_point, rows[j].event_point, "PRECEDES") > 0

-----------------------------------------------------------------------------
(* C6: the DELIVERED edge made for the Consume row just folded carries a   *)
(* lag exactly when an earlier row of the same key was classified Publish. *)
C6_LagIffEarlierPublishOfKey ==
  ( /\ pc = "build"
    /\ rows # <<>>
    /\ Classify(LastRow.message) = "Consume" )
  => ( LastEdgeData(G, QUEUE_NAME, LastRow.event_point).lag # None
       <=> \E i \in RowsClassified(LastRow.corr_key, "Publish") : i < Len(rows) )

\* a Consume of a key that was never published, folded after a Publish of
\* another key, and then a Consume of the published key
C6_Witness ==
  /\ pc = "build"
  /\ Len(rows) = 3
  /\ Classify(rows[1].message) = "Publish"
  /\ Classify(rows[2].message) = "Consume"
  /\ rows[2].corr_key # rows[1].corr_key
  /\ Classify(rows[3].message) = "Consume"
  /\ rows[3].corr_key = rows[1].corr_key
  /\ LastEdgeData(G, QUEUE_NAME, LastRow.event_point).lag # None

-----------------------------------------------------------------------------
(* C7: after any prefix of the events the Queue node is in the graph       *)
(* exactly when a folded event was classified Publish or Consume, and the  *)
(* graph never has two Queue nodes.                                        *)
C7_QueueIffHopObserved ==
  pc = "build" =>
    /\ HasNode(G, QUEUE_NAME)
         <=> \E i \in 1..Len(rows) :
                Classify(rows[i].message) \in {"Publish", "Consume"}
    /\ NodesOfKind(G, "Queue") \subseteq {QUEUE_NAME}
    /\ Cardinality({i \in 1..Len(G.order) : G.order[i] = QUEUE_NAME}) <= 1

\* a Publish and a Consume were folded after an event that is neither
C7_Witness ==
  /\ Len(rows) = 3
  /\ Classify(rows[1].message) = "Other"
  /\ Classify(rows[2].message) = "Publish"
  /\ Classify(rows[3].message) = "Consume"
  /\ HasNode(G, QUEUE_NAME)

-----------------------------------------------------------------------------
(* Vocabulary of the lag properties *)

HasLagValue(e) == e.d.rel = "DELIVERED" /\ GetLag(e.d) # None

\* the end-point pairs of the DELIVERED edges that carry a non-null lag
LagPairs(g) == {<<e.u, e.v>> : e \in {x \in EdgeSet(g) : HasLagValue(x)}}

\* the DELIVERED edges of the pair p with a non-null lag, in edge order
LagEdgesOf(g, p) ==
  SelectSeq(edges(g), LAMBDA e : HasLagValue(e) /\ e.u = p[1] /\ e.v = p[2])

\* the non-null lags of the pair p, in edge order
LagsOf(g, p) == [i \in 1..Len(LagEdgesOf(g, p)) |-> LagEdgesOf(g, p)[i].d.lag[1]]

\* where the pair p is first met in edge order
FirstMet(g, p) ==
  CHOOSE i \in 1..Len(edges(g)) :
     /\ HasLagValue(edges(g)[i]) /\ edges(g)[i].u = p[1] /\ edges(g)[i].v = p[2]
     /\ \A j \in 1..(i - 1) :
          ~(HasLagValue(edges(g)[j]) /\ edges(g)[j].u = p[1] /\ edges(g)[j].v = p[2])

\* the samples scan collected under a group key, none when it has no group
SamplesUnder(lags, key) ==
  IF \E i \in 1..Len(lags) : lags[i].key = key
  THEN lags[CHOOSE i \in 1..Len(lags) : lags[i].key = key].vals
  ELSE <<>>

\* the DELIVERED edges slower than the threshold, in edge order
SlowEdges(g) ==
  SelectSeq(edges(g), LAMBDA e : HasLagValue(e) /\ e.d.lag[1] > SlowThreshold)

SlowEntries(g) ==
  [i \in 1..Len(SlowEdges(g)) |->
     [u |-> SlowEdges(g)[i].u, v |-> SlowEdges(g)[i].v,
      lag |-> SlowEdges(g)[i].d.lag[1]]]

-----------------------------------------------------------------------------
(* C8: scan reports as bottleneck the group of DELIVERED edges, grouped by *)
(* end-point pair, whose median lag is greatest, the first such group in   *)
(* edge order when several share that median, and reports none when no     *)
(* DELIVERED edge carries a lag.                                           *)
C8_BottleneckHasGreatestMedian ==
  pc = "scanned" =>
    IF LagPairs(G) = {} THEN findings.bottleneck = None
    ELSE \E p \in LagPairs(G) :
           /\ findings.bottleneck
                = Some([key |-> GroupKey(p[1], p[2]), vals |-> LagsOf(G, p)])
           /\ \A q \in LagPairs(G) :
                /\ median2(LagsOf(G, p)) >= median2(LagsOf(G, q))
                /\ median2(LagsOf(G, p)) = median2(LagsOf(G, q))
                     => FirstMet(G, p) <= FirstMet(G, q)

-----------------------------------------------------------------------------
(* C9: the slow-hop list holds one entry per DELIVERED edge whose lag is   *)
(* strictly greater than 1.0 s and no other entry, and is ordered by lag   *)
(* non-increasing.                                                         *)
C9_SlowHopsAreTheEdgesOverThreshold ==
  pc = "scanned" =>
    /\ Len(findings.slow_hops) = Len(SlowEntries(G))
    /\ \A i \in 1..Len(findings.slow_hops) :
         CountIn(findings.slow_hops, findings.slow_hops[i])
           = CountIn(SlowEntries(G), findings.slow_hops[i])
    /\ \A i, j \in 1..Len(findings.slow_hops) :
         i < j => findings.slow_hops[i].lag >= findings.slow_hops[j].lag

\* an edge of exactly 1.0 s beside two slow edges that scan had to reorder
C9_Witness ==
  /\ pc = "scanned"
  /\ \E e \in EdgeSet(G) : HasLagValue(e) /\ e.d.lag[1] = SlowThreshold
  /\ Len(findings.slow_hops) = 2
  /\ SlowEntries(G)[1].lag < SlowEntries(G)[2].lag
  /\ findings.slow_hops[1].lag > findings.slow_hops[2].lag

-----------------------------------------------------------------------------
(* C10: the samples scan keeps for a pair of end points are exactly the    *)
(* non-null lags of the pair's DELIVERED edges: an edge is left out        *)
(* exactly when its lag is null.                                           *)
C10_SamplesAreTheNonNullLags ==
  pc = "scanned" =>
    \A e \in {x \in EdgeSet(G) : x.d.rel = "DELIVERED"} :
       SamplesUnder(findings.lags, GroupKey(e.u, e.v)) = LagsOf(G, <<e.u, e.v>>)

-----------------------------------------------------------------------------
(* C11: every edge of the graph build_graph.main has returned carries one  *)
(* relation tag, one of PROCESSED, PUBLISHED, DELIVERED, PRECEDES,         *)
(* whatever the back-end and whether the neo4j commit succeeded or raised, *)
(* so the scan that follows never fails on an edge without a relation.     *)
C11_EveryReturnedEdgeHasOneRelation ==
  /\ pc = "returned" =>
       \A e \in EdgeSet(G) :
          /\ HasRel(e.d)
          /\ e.d.rel \in {"PROCESSED", "PUBLISHED", "DELIVERED", "PRECEDES"}
  /\ pc # "KeyError"

-----------------------------------------------------------------------------
-----------------------------------------------------------------------------
(* C13: the builder folds rows of equal timestamp in their input order:    *)
(* in the sorted frame a row that came earlier in the input stands before  *)
(* every row of the same timestamp that came later, so the graph built is  *)
(* the one the stable sort of the input gives.                             *)
C13_TiesKeepInputOrder ==
  pc \in {"sorted", "built"} =>
    \A i, j \in 1..Len(rows) :
       (i < j /\ rows[i].timestamp = rows[j].timestamp)
         => rows[i].index < rows[j].index

-----------------------------------------------------------------------------
(* Vocabulary of the scenario *)

\* how many edges of the graph carry the relation rel
CountRel(g, rel) ==
  LET es == edges(g)
  IN  Cardinality({i \in 1..Len(es) : es[i].d.rel = rel})

\* the three events of key orderId=1: "processing order" at t = 0 s,
\* "publish to shipping" at t = 1 s, "consume shipping ack" at t = 5 s,
\* at three different EventPoints
IsScenarioA ==
  /\ Len(rows) = 3
  /\ \A i \in 1..3 : rows[i].corr_key = "orderId=1"
  /\ rows[1].message = <<"processing", "order">> /\ rows[1].timestamp = 0
  /\ rows[2].message = <<"publish", "to", "shipping">> /\ rows[2].timestamp = 2
  /\ rows[3].message = <<"consume", "shipping", "ack">> /\ rows[3].timestamp = 10
  /\ Cardinality({rows[i].event_point : i \in 1..3}) = 3

-----------------------------------------------------------------------------
(* C14, as claimed: for the three events of scenario A the built graph has *)
(* 3 EventPoints, 1 DataInstance, 1 Queue, exactly one PUBLISHED edge and  *)
(* exactly one DELIVERED edge, and scan reports no lost message.           *)
C14_ScenarioAOneDelivered ==
  (pc = "scanned" /\ IsScenarioA) =>
    /\ Cardinality(NodesOfKind(G, "EventPoint")) = 3
    /\ Cardinality(NodesOfKind(G, "DataInstance")) = 1
    /\ Cardinality(NodesOfKind(G, "Queue")) = 1
    /\ CountRel(G, "PUBLISHED") = 1
    /\ CountRel(G, "DELIVERED") = 1
    /\ findings.lost = <<>>

(* C14, amended: for the three events of scenario A the built graph has    *)
(* 3 EventPoints, 1 DataInstance, 1 Queue, exactly one PUBLISHED edge and  *)
(* exactly two DELIVERED edges, one without lag to the EventPoint of       *)
(* "processing order", which the consume rule matches, and one to the      *)
(* EventPoint of "consume shipping ack"; scan reports no lost message.     *)
C14_ScenarioATwoDelivered ==
  (pc = "scanned" /\ IsScenarioA) =>
    /\ Cardinality(NodesOfKind(G, "EventPoint")) = 3
    /\ Cardinality(NodesOfKind(G, "DataInstance")) = 1
    /\ Cardinality(NodesOfKind(G, "Queue")) = 1
    /\ CountRel(G, "PUBLISHED") = 1
    /\ CountRel(G, "DELIVERED") = 2
    /\ CountEdges(G, QUEUE_NAME, rows[1].event_point, "DELIVERED") = 1
    /\ LastEdgeData(G, QUEUE_NAME, rows[1].event_point).lag = None
    /\ CountEdges(G, QUEUE_NAME, rows[3].event_point, "DELIVERED") = 1
    /\ findings.lost = <<>>

\* scenario A was built and scanned
C14_Witness == pc = "scanned" /\ IsScenarioA /\ CountRel(G, "PROCESSED") = 3

-----------------------------------------------------------------------------
(* C15: the fold of one event adds the hop edges of exactly one class,     *)
(* the publish test made first: a message with both vocabularies adds one  *)
(* PUBLISHED edge, no DELIVERED edge and hands its key to the Queue; a     *)
(* message with consume vocabulary only adds one DELIVERED edge and no     *)
(* PUBLISHED edge; a message with neither adds no PUBLISHED edge, no       *)
(* DELIVERED edge and does not create the Queue node.                      *)
C15_PublishTestedFirst ==
  [][rows' # rows =>
       LET row == rows'[Len(rows')]
           pub == PUB_RE_search(row.message)
           con == CON_RE_search(row.message)
           published == CountRel(G', "PUBLISHED") - CountRel(G, "PUBLISHED")
           delivered == CountRel(G', "DELIVERED") - CountRel(G, "DELIVERED")
       IN  /\ pub => /\ published = 1 /\ delivered = 0
                     /\ last_by_id'[row.corr_key] = QUEUE_NAME
           /\ (~pub /\ con) => (published = 0 /\ delivered = 1)
           /\ (~pub /\ ~con) =>
                /\ published = 0 /\ delivered = 0
                /\ HasNode(G', QUEUE_NAME) <=> HasNode(G, QUEUE_NAME)
                /\ DictGet(last_by_id', row.corr_key) = DictGet(last_by_id, row.corr_key)
  ]_vars

\* a message with neither vocabulary was folded into a graph without
\* Queue, then a message with both vocabularies
C15_Witness ==
  /\ pc = "build"
  /\ Len(rows) = 2
  /\ ~PUB_RE_search(rows[1].message) /\ ~CON_RE_search(rows[1].message)
  /\ PUB_RE_search(rows[2].message) /\ CON_RE_search(rows[2].message)
  /\ CountRel(G, "PUBLISHED") = 1
  /\ CountRel(G, "DELIVERED") = 0
  /\ last_by_id[rows[2].corr_key] = QUEUE_NAME

-----------------------------------------------------------------------------
(* Vocabulary of the key extraction *)

\* the pattern has a match somewhere in the message
MatchesAnywhere(pat, msg) == \E i \in 1..Len(msg) : MatchesAt(pat, msg[i])

\* the first pattern of the list that matches somewhere, 0 when none does
FirstPattern(msg) ==
  IF \E k \in 1..3 : MatchesAnywhere(CORR_PATTERNS[k], msg)
  THEN CHOOSE k \in 1..3 :
         /\ MatchesAnywhere(CORR_PATTERNS[k], msg)
         /\ \A h \in 1..(k - 1) : ~MatchesAnywhere(CORR_PATTERNS[h], msg)
  ELSE 0

-----------------------------------------------------------------------------
(* C16: the key extracted from a message is 'name=value' of the first of   *)
(* the patterns orderId, paymentId, userId, in that order, that matches    *)
(* somewhere in the message, wherever the matches of the later patterns    *)
(* stand, and is no key when no pattern matches.                           *)
C16_FirstPatternInListOrderWins ==
  pc = "keyed" =>
    LET msg == rows[1].message
        k   == FirstPattern(msg)
    IN  IF k = 0 THEN rows[1].corr_key = None
        ELSE \E i \in 1..Len(msg) :
               /\ MatchesAt(CORR_PATTERNS[k], msg[i])
               /\ rows[1].corr_key
                    = Some(CORR_PATTERNS[k].name \o "=" \o
                           Join(Prefix(CORR_PATTERNS[k].class, msg[i].value)))

\* a message with a userId, then a paymentId, then an orderId: the key is
\* the orderId, which stands last
C16_Witness ==
  /\ pc = "keyed"
  /\ Len(rows[1].message) = 3
  /\ MatchesAt(CORR_PATTERNS[3], rows[1].message[1])
  /\ MatchesAt(CORR_PATTERNS[2], rows[1].message[2])
  /\ MatchesAt(CORR_PATTERNS[1], rows[1].message[3])
  /\ rows[1].corr_key = Some("orderId=12")

-----------------------------------------------------------------------------
(* C17: a frame without rows is built into a graph with no node and no     *)
(* edge, and the scan of that graph finishes, without raising, with no     *)
(* bottleneck, no lost message and no slow hop.                            *)
C17_EmptyInputEmptyFindings ==
  rows = <<>> =>
    /\ pc \in {"built", "scanned"} =>
         (G.order = <<>> /\ DOMAIN G.attr = {} /\ edges(G) = <<>>)
    /\ pc = "scanned" =>
         /\ findings.bottleneck = None
         /\ findings.lost = <<>>
         /\ findings.slow_hops = <<>>
    /\ pc # "KeyError"

\* the empty frame was sorted, folded and scanned
C17_Witness ==
  /\ pc = "scanned"
  /\ rows = <<>>
  /\ findings.bottleneck = None
  /\ findings.md # <<>>

-----------------------------------------------------------------------------
-----------------------------------------------------------------------------
(* Vocabulary of the report *)

IsHeading(line) == line[1] \in {"## ", "\n## "}

\* the section headings of the report, in the order of the lines
Headings(md) == SelectSeq(md, IsHeading)

\* the lines of the section under the heading, up to the next heading
SectionLines(md, heading) ==
  LET at   == CHOOSE i \in 1..Len(md) : md[i] = heading
      next == {j \in (at + 1)..Len(md) : IsHeading(md[j])}
      end  == IF next = {} THEN Len(md) + 1
              ELSE CHOOSE j \in next : \A m \in next : j <= m
  IN  {md[i] : i \in (at + 1)..(end - 1)}

-----------------------------------------------------------------------------
(* C19: the report has exactly three sections, "Bottleneck hop", "Lost     *)
(* messages", "Slow hops" in this order, and a section shows its no-data   *)
(* text exactly when its finding, the bottleneck, the lost list or the     *)
(* slow-hop list, is empty.                                                *)
C19_ThreeSectionsWithNoDataTexts ==
  pc = "scanned" =>
    LET md == findings.md
    IN  /\ Headings(md) = << <<"## ", "Bottleneck hop">>,
                              <<"\n## ", "Lost messages">>,
                              <<"\n## ", "Slow hops">> >>
        /\ <<"_No publish to consume edges with lag found._">>
               \in SectionLines(md, <<"## ", "Bottleneck hop">>)
             <=> findings.bottleneck = None
        /\ <<"_No lost messages detected._">>
               \in SectionLines(md, <<"\n## ", "Lost messages">>)
             <=> findings.lost = <<>>
        /\ <<"_No significant delivery delays detected._">>
               \in SectionLines(md, <<"\n## ", "Slow hops">>)
             <=> findings.slow_hops = <<>>
        /\ \A line \in {md[i] : i \in 1..Len(md)} :
             line \in { <<"_No publish to consume edges with lag found._">>,
                        <<"_No lost messages detected._">>,
                        <<"_No significant delivery delays detected._">> }
               => \E h \in 1..3 : line \in SectionLines(md, Headings(md)[h])

\* a report with a bottleneck, a lost key and no slow hop
C19_Witness ==
  /\ pc = "scanned"
  /\ findings.bottleneck # None
  /\ findings.lost # <<>>
  /\ findings.slow_hops = <<>>
  /\ <<"- ", "orderId=1">> \in SectionLines(findings.md, <<"\n## ", "Lost messages">>)

-----------------------------------------------------------------------------
(* C20: in every graph the builder makes, whatever the time between the    *)
(* publish and the consume events, the lag of a DELIVERED edge is null or  *)
(* exactly zero; so the scan of a built graph reports no bottleneck and    *)
(* no slow hop.                                                            *)
C20_BuiltLagIsNullOrZero ==
  /\ \A e \in EdgeSet(G) :
       e.d.rel = "DELIVERED" => GetLag(e.d) \in {None, Some(0)}
  /\ pc = "scanned" =>
       /\ findings.bottleneck = None
       /\ findings.slow_hops = <<>>

\* a key published and, four seconds later, consumed: its DELIVERED edge
\* has the lag zero and the scan reports nothing
C20_Witness ==
  /\ pc = "scanned"
  /\ \E i \in 1..(Len(rows) - 1) :
       /\ Classify(rows[i].message) = "Publish"
       /\ Classify(rows[i + 1].message) = "Consume"
       /\ rows[i + 1].timestamp - rows[i].timestamp = 8
       /\ LastEdgeData(G, QUEUE_NAME, rows[i + 1].event_point).lag = Some(0)
  /\ findings.bottleneck = None

-----------------------------------------------------------------------------
(* C21: the builder adds one edge per event and merges none: the graph has *)
(* as many PROCESSED edges as events were folded, as many PUBLISHED edges  *)
(* as events were classified Publish and as many DELIVERED edges as events *)
(* were classified Consume, also when events share their event-point id    *)
(* and their key.                                                          *)
C21_OneEdgePerEventNeverMerged ==
  /\ CountRel(G, "PROCESSED") = Len(rows)
  /\ CountRel(G, "PUBLISHED")
       = Cardinality({i \in 1..Len(rows) : Classify(rows[i].message) = "Publish"})
  /\ CountRel(G, "DELIVERED")
       = Cardinality({i \in 1..Len(rows) : Classify(rows[i].message) = "Consume"})

\* three events of one key at one EventPoint, two of them Publish and one
\* Consume: parallel PROCESSED and PUBLISHED edges
C21_Witness ==
  /\ Len(rows) = 3
  /\ \A i \in 1..3 : rows[i].event_point = rows[1].event_point
  /\ Cardinality({i \in 1..3 : Classify(rows[i].message) = "Publish"}) = 2
  /\ Cardinality({i \in 1..3 : Classify(rows[i].message) = "Consume"}) = 1
  /\ CountEdges(G, rows[1].event_point, rows[1].corr_key, "PROCESSED") = 3
  /\ CountEdges(G, rows[1].event_point, QUEUE_NAME, "PUBLISHED") = 2

-----------------------------------------------------------------------------
(* Vocabulary of the timeline *)

\* the pairs of rows of one key, no row of that key between them, that
\* carry different event-point ids
TimelineSteps ==
  {p \in (1..Len(rows)) \X (1..Len(rows)) :
     Consecutive(p[1], p[2]) /\ rows[p[1]].event_point # rows[p[2]].event_point}

\* the last row of key k
LastRowOf(k) == rows[CHOOSE i \in RowsOf(k) : \A j \in RowsOf(k) : j <= i]

-----------------------------------------------------------------------------
(* C22: the graph has one PRECEDES edge a -> b for each event of a key     *)
(* folded at b whose key's previous event was folded at another EventPoint *)
(* a, and no other PRECEDES edge: a and b are two different EventPoints    *)
(* with a PROCESSED edge to one DataInstance, no edge is a self-loop, the  *)
(* previous-EventPoint pointer of a key is the EventPoint of that key's    *)
(* last event whatever the events of the other keys, and the events of a   *)
(* key with n events account for at most n - 1 PRECEDES edges.             *)
C22_PrecedesFollowsKeyTimeline ==
  LET steps  == TimelineSteps
      points == NodesOfKind(G, "EventPoint")
  IN  /\ CountRel(G, "PRECEDES") = Cardinality(steps)
      /\ \A a, b \in points :
           /\ CountEdges(G, a, b, "PRECEDES")
                = Cardinality({p \in steps : rows[p[1]].event_point = a
                                               /\ rows[p[2]].event_point = b})
           /\ CountEdges(G, a, b, "PRECEDES") > 0 =>
                /\ a # b
                /\ \E d \in NodesOfKind(G, "DataInstance") :
                     /\ CountEdges(G, a, d, "PROCESSED") > 0
                     /\ CountEdges(G, b, d, "PROCESSED") > 0
      /\ \A k \in Keys :
           /\ DictGet(last_by_id, k \o "@prev")
                = IF RowsOf(k) = {} THEN None ELSE Some(LastRowOf(k).event_point)
           /\ Cardinality({p \in steps : rows[p[1]].corr_key = k})
                <= (IF RowsOf(k) = {} THEN 0 ELSE Cardinality(RowsOf(k)) - 1)

\* an event of another key, at another EventPoint, folded between two
\* events of a key that are at one EventPoint: no PRECEDES edge at all
C22_Witness ==
  /\ pc = "build"
  /\ Len(rows) = 3
  /\ rows[1].corr_key = rows[3].corr_key
  /\ rows[2].corr_key # rows[1].corr_key
  /\ rows[1].event_point = rows[3].event_point
  /\ rows[2].event_point # rows[1].event_point
  /\ CountRel(G, "PRECEDES") = 0
  /\ last_by_id[PrevKey(rows[2].corr_key)] = rows[2].event_point

====
